---- MODULE Spec2Model ----
(***************************************************************************)
(* UniversalCipherBreaker (universalBreaker.js, listed in src/README.md    *)
(* from line 111 on) and its caller, the POST /api/break-cipher handler of *)
(* src/main.js.                                                            *)
(*                                                                         *)
(* A JavaScript string is a sequence of one-character strings.  A number   *)
(* that the code obtains by a division (a confidence) is the fraction      *)
(* [num, den] with den > 0, compared by cross-multiplication: for the      *)
(* operands of this model (numerators and denominators below 2^53, two     *)
(* distinct fractions further apart than one ulp) the IEEE-754 quotient    *)
(* compares exactly as the fraction does.                                  *)
(***************************************************************************)
EXTENDS Integers, Sequences, FiniteSets, TLC

(***************************************************************************)
(* Characters and strings                                                  *)
(***************************************************************************)
LowerLetters ==
  << "a","b","c","d","e","f","g","h","i","j","k","l","m",
     "n","o","p","q","r","s","t","u","v","w","x","y","z" >>

UpperLetters ==
  << "A","B","C","D","E","F","G","H","I","J","K","L","M",
     "N","O","P","Q","R","S","T","U","V","W","X","Y","Z" >>

\* the class \s of the regular expressions /\s+/
IsSpace(ch) ==
  ch \in {" ", "\t", "\n"}

IsLower(ch) ==
  \E i \in DOMAIN LowerLetters : LowerLetters[i] = ch

IsUpper(ch) ==
  \E i \in DOMAIN UpperLetters : UpperLetters[i] = ch

\* the class [a-zA-Z]
IsLetter(ch) ==
  IsLower(ch) \/ IsUpper(ch)

\* String.prototype.toUpperCase on one ASCII character
UpperChar(ch) ==
  IF IsLower(ch)
    THEN UpperLetters[CHOOSE i \in DOMAIN LowerLetters : LowerLetters[i] = ch]
    ELSE ch

\* a conversion that leaves the case of the letters as it is
SameCase(s) ==
  s

\* String.prototype.toUpperCase
toUpperCase(s) ==
  [i \in DOMAIN s |-> UpperChar(s[i])]

\* word.replace(/[^a-zA-Z]/g, '')
StripNonLetters(s) ==
  SelectSeq(s, IsLetter)

\* the positions at which a run of characters other than white space starts
PieceStarts(s) ==
  { i \in DOMAIN s : ~IsSpace(s[i]) /\ (i = 1 \/ IsSpace(s[i - 1])) }

\* the position at which the run that starts at i ends
PieceEnd(s, i) ==
  CHOOSE j \in i .. Len(s) :
    /\ \A k \in i .. j : ~IsSpace(s[k])
    /\ j = Len(s) \/ IsSpace(s[j + 1])

\* the runs of characters other than white space, in their order
Pieces(s) ==
  [n \in 1 .. Cardinality(PieceStarts(s)) |->
     LET i == CHOOSE i \in PieceStarts(s) :
                Cardinality({ j \in PieceStarts(s) : j < i }) = n - 1
     IN  SubSeq(s, i, PieceEnd(s, i))]

\* String.prototype.split(/\s+/): the runs between white space; white space
\* at the start or at the end leaves an empty piece there, and the empty
\* string splits into one empty piece
SplitWhitespace(s) ==
  IF s = << >> THEN << << >> >>
  ELSE (IF IsSpace(s[1]) THEN << << >> >> ELSE << >>)
         \o Pieces(s)
         \o (IF IsSpace(s[Len(s)]) THEN << << >> >> ELSE << >>)

\* a filter that drops nothing
KeepAll(ws) ==
  ws

\* Array.prototype.filter(word => word.length > 0)
NonEmptyOnly(ws) ==
  SelectSeq(ws, LAMBDA w : Len(w) > 0)

\* the words validateText extracts from a text
ExtractWords(text) ==
  LET pieces   == NonEmptyOnly(SplitWhitespace(text))
      stripped == [i \in DOMAIN pieces |-> toUpperCase(StripNonLetters(pieces[i]))]
  IN  NonEmptyOnly(stripped)

(***************************************************************************)
(* JavaScript values, as far as the code tells them apart                  *)
(***************************************************************************)
Range(s) ==
  { s[i] : i \in DOMAIN s }

Undefined ==
  [type |-> "undefined", num |-> 0, str |-> << >>]

Num(n) ==
  [type |-> "number", num |-> n, str |-> << >>]

Str(s) ==
  [type |-> "string", num |-> 0, str |-> s]

\* ToBoolean: undefined, 0 and the empty string are falsy
Truthy(v) ==
  \/ v.type = "number" /\ v.num # 0
  \/ v.type = "string" /\ Len(v.str) > 0

Frac(n, d) ==
  [num |-> n, den |-> d]

\* a >= b for fractions with positive denominators
FracGeq(a, b) ==
  a.num * b.den >= b.num * a.den

FracEq(a, b) ==
  a.num * b.den = b.num * a.den

Digits ==
  << "0","1","2","3","4","5","6","7","8","9" >>

\* the decimal digits of a natural number
RECURSIVE NatToString(_)
NatToString(n) ==
  IF n < Len(Digits) THEN << Digits[n + 1] >>
  ELSE Append(NatToString(n \div Len(Digits)), Digits[(n % Len(Digits)) + 1])

\* Number.prototype.toString() of an integer
NumberToString(n) ==
  IF n < 0 THEN << "-" >> \o NatToString(0 - n) ELSE NatToString(n)

IsDigit(ch) ==
  \E i \in DOMAIN Digits : Digits[i] = ch

DigitValue(ch) ==
  (CHOOSE i \in DOMAIN Digits : Digits[i] = ch) - 1

\* the value of the longest run of digits s starts with, acc being the
\* value read so far
RECURSIVE ParseDigits(_, _)
ParseDigits(s, acc) ==
  IF s = << >> \/ ~IsDigit(Head(s)) THEN acc
  ELSE ParseDigits(Tail(s), acc * Len(Digits) + DigitValue(Head(s)))

\* parseInt(key) of a JavaScript value: the value is converted to a string,
\* an optional sign and the leading digits are read; NaN when there is none
parseInt(v) ==
  LET s    == IF v.type = "string" THEN v.str
              ELSE IF v.type = "number" THEN NumberToString(v.num)
              ELSE << "u","n","d","e","f","i","n","e","d" >>
      neg  == s # << >> /\ Head(s) = "-"
      body == IF s # << >> /\ Head(s) \in {"-", "+"} THEN Tail(s) ELSE s
  IN  IF body = << >> \/ ~IsDigit(Head(body))
        THEN [type |-> "NaN", num |-> 0, str |-> << >>]
        ELSE Num(IF neg THEN 0 - ParseDigits(body, 0) ELSE ParseDigits(body, 0))

(***************************************************************************)
(* validateText                                                            *)
(***************************************************************************)
NoValidation ==
  [confidence |-> Frac(0, 1), validWords |-> 0, totalWords |-> 0, invalidWords |-> << >>]

\* the dictionary validateText looks words up in: the upper-cased Words.json
\* set when it holds a word, the collaborators' own lists otherwise
DictionaryInUse(b) ==
  IF b.wordsDictionarySet.defined /\ Cardinality(b.wordsDictionarySet.words) > 0
    THEN b.wordsDictionarySet.words
    ELSE (IF b.vigenereCommonWords.defined THEN b.vigenereCommonWords.words ELSE {})
           \cup (IF b.classicCommonWords.defined THEN b.classicCommonWords.words ELSE {})

validateText(text, b) ==
  IF text = << >> THEN NoValidation
  ELSE
    LET words == ExtractWords(text) IN
    IF Len(words) = 0 THEN NoValidation
    ELSE
      LET dictionary   == DictionaryInUse(b)
          invalidWords == SelectSeq(words, LAMBDA w : w \notin dictionary)
          validCount   == Len(words) - Len(invalidWords)
      IN  [confidence   |-> Frac(validCount, Len(words)),
           validWords   |-> validCount,
           totalWords   |-> Len(words),
           invalidWords |-> invalidWords]

(***************************************************************************)
(* The breaker instance: constructor                                       *)
(***************************************************************************)
\* this.thresholds.confidenceThreshold = 0.9
confidenceThreshold ==
  Frac(9, 10)

\* validation.confidence >= this.thresholds.confidenceThreshold
MeetsThreshold(confidence) ==
  FracGeq(confidence, confidenceThreshold)

\* new Set(this.wordsDictionary.map(word => word.toUpperCase())), built only
\* when Words.json gave a commonWords array
UpperCasedSet(wordsDictionary) ==
  IF wordsDictionary.defined
    THEN [defined |-> TRUE, words |-> {toUpperCase(w) : w \in wordsDictionary.words}]
    ELSE [defined |-> FALSE, words |-> {}]

\* the instance after construction: wordsDictionary is the commonWords
\* array of Words.json or null, the two breakers carry their own word lists
Constructed(wordsDictionary, vigenereCommonWords, classicCommonWords) ==
  [wordsDictionary     |-> wordsDictionary,
   wordsDictionarySet  |-> UpperCasedSet(wordsDictionary),
   vigenereCommonWords |-> vigenereCommonWords,
   classicCommonWords  |-> classicCommonWords]

(***************************************************************************)
(* The dictionaries and the decrypted texts of the model                   *)
(***************************************************************************)
\* Words.json: { "commonWords": ["the", "Cat", "a"] }
WordsJson ==
  { << "t","h","e" >>, << "C","a","t" >>, << "a" >> }

\* the word lists the two breakers expose as commonWords
VigenereWords ==
  { << "T","H","E" >>, << "A" >> }

ClassicWords ==
  { << "C","A","T" >>, << "X","Q" >> }

\* the instances construction can leave: Words.json read, or unreadable
\* (wordsDictionary = null, no wordsDictionarySet)
Instances ==
  { Constructed([defined |-> TRUE, words |-> WordsJson],
                [defined |-> TRUE, words |-> VigenereWords],
                [defined |-> TRUE, words |-> ClassicWords]),
    Constructed([defined |-> FALSE, words |-> {}],
                [defined |-> TRUE, words |-> VigenereWords],
                [defined |-> TRUE, words |-> ClassicWords]) }

\* "the cat": both words valid
TextAllValid ==
  << "t","h","e"," ","c","a","t" >>

\* "The, xq!": one word of two valid
TextHalfValid ==
  << "T","h","e",","," ","x","q","!" >>

\* "zz 42": one word, not valid
TextNoneValid ==
  << "z","z"," ","4","2" >>

\* "a a a a a a a a a x": nine words of ten valid, confidence exactly 0.9
TextNinety ==
  << "a"," ","a"," ","a"," ","a"," ","a"," ","a"," ","a"," ","a"," ","a"," ","x" >>

Texts ==
  { TextAllValid, TextHalfValid, TextNoneValid, TextNinety }

\* this.validateText(text) and text.split(/\s+/).length for every text and
\* instance of the model, worked out once
Validations ==
  { [text       |-> t,
     instance   |-> b,
     validation |-> validateText(t, b),
     pieces     |-> Len(SplitWhitespace(t))] : t \in Texts, b \in Instances }

ValidationOf(text, b) ==
  (CHOOSE v \in Validations : v.text = text /\ v.instance = b).validation

PiecesOf(text, b) ==
  (CHOOSE v \in Validations : v.text = text /\ v.instance = b).pieces

(***************************************************************************)
(* breakCipher: the three steps and the fallback ranking                   *)
(***************************************************************************)
\* the method names of the candidates ('Vigen\`ere' in the source)
MethodCaesar ==
  "Caesar"

MethodRailFence ==
  "Rail Fence"

MethodVigenere ==
  "Vigenere"

NoOutcome ==
  [kind       |-> "none",
   success    |-> FALSE,
   method     |-> "",
   decrypted  |-> << >>,
   confidence |-> Frac(0, 1),
   key        |-> Undefined,
   params     |-> [name |-> "", value |-> Undefined],
   details    |-> [confidence |-> << >>, validWords |-> 0, totalWords |-> 0,
                   invalidWords |-> << >>],
   error      |-> ""]

\* throw new Error(message)
Raised(message) ==
  [NoOutcome EXCEPT !.kind = "raised", !.error = message]

\* return { success: true, method, decrypted, confidence, key, params,
\*          details: validation }
EarlySuccess(method, decrypted, validation, key, paramName, paramValue) ==
  [kind       |-> "returned",
   success    |-> TRUE,
   method     |-> method,
   decrypted  |-> decrypted,
   confidence |-> validation.confidence,
   key        |-> key,
   params     |-> [name |-> paramName, value |-> paramValue],
   details    |-> [confidence   |-> << validation.confidence >>,
                   validWords   |-> validation.validWords,
                   totalWords   |-> validation.totalWords,
                   invalidWords |-> validation.invalidWords],
   error      |-> ""]

\* the object pushed on results
Candidate(method, key, decrypted, rawScore, validation, shiftValue, rails) ==
  [method         |-> method,
   key            |-> key,
   decrypted      |-> decrypted,
   rawScore       |-> rawScore,
   confidence     |-> validation.confidence,
   additionalInfo |-> [shiftValue   |-> shiftValue,
                       rails        |-> rails,
                       validWords   |-> validation.validWords,
                       totalWords   |-> validation.totalWords,
                       invalidWords |-> validation.invalidWords]]

\* how a step ends: the results list it leaves, and the outcome it returned
\* (kind "none" when breakCipher goes on to the next step)
GoOn(results) ==
  [results |-> results, outcome |-> NoOutcome]

\* a weaker argument check, !ciphertext alone: a number would pass it
MissingCiphertext(ciphertext) ==
  ~Truthy(ciphertext)

\* !ciphertext || typeof ciphertext !== 'string'
InvalidCiphertext(ciphertext) ==
  ~Truthy(ciphertext) \/ ciphertext.type # "string"

\* Step 1, the body of the first try/catch, r being what breakCaesar did
CaesarStep(r, results, b) ==
  IF r.kind # "object" \/ ~Truthy(r.text) THEN GoOn(results)
  ELSE IF r.text.type # "string" THEN GoOn(results)          \* text.split throws
  ELSE IF r.shift.type = "undefined" THEN GoOn(results)      \* shift.toString throws
  ELSE
    LET validation == ValidationOf(r.text.str, b)
        key        == Str(NumberToString(r.shift.num))
        pushed     == Append(results,
                        Candidate(MethodCaesar, key, r.text.str, r.score, validation,
                                  r.shift, Undefined))
    IN  IF r.score.type # "number" THEN GoOn(pushed)         \* score.toFixed throws
        ELSE IF MeetsThreshold(validation.confidence)
          THEN [results |-> pushed,
                outcome |-> EarlySuccess(MethodCaesar, r.text.str, validation, key,
                                         "shift", r.shift)]
        ELSE GoOn(pushed)

\* Step 2, the body of the second try/catch, r being what breakRailFence did
RailFenceStep(r, results, b) ==
  IF r.kind # "object" \/ ~Truthy(r.text) THEN GoOn(results)
  ELSE IF r.text.type # "string" THEN GoOn(results)
  ELSE IF r.rails.type = "undefined" THEN GoOn(results)
  ELSE
    LET validation == ValidationOf(r.text.str, b)
        key        == Str(NumberToString(r.rails.num))
        pushed     == Append(results,
                        Candidate(MethodRailFence, key, r.text.str, r.score, validation,
                                  Undefined, r.rails))
    IN  IF r.score.type # "number" THEN GoOn(pushed)
        ELSE IF MeetsThreshold(validation.confidence)
          THEN [results |-> pushed,
                outcome |-> EarlySuccess(MethodRailFence, r.text.str, validation, key,
                                         "rails", r.rails)]
        ELSE GoOn(pushed)

\* Math.round(percentage * 0.01 * n), half rounding up (the floating-point
\* product rounds as the exact one does for the percentages of this model)
RoundedShare(percentage, n) ==
  (2 * percentage * n + 100) \div 200

\* a Vigenere step that validates the decrypted text whatever the result
\* carries
AlwaysValidateText(r, b) ==
  ValidationOf(r.decrypted.str, b)

\* the validation record of the Vigenere step: the collaborator's own
\* percentage when it is a number, validateText otherwise
VigenereValidation(r, b) ==
  IF r.validation.defined /\ r.validation.percentage.type = "number"
    THEN LET n == PiecesOf(r.decrypted.str, b)
         IN  [confidence   |-> Frac(r.validation.percentage.num, 100),
              validWords   |-> RoundedShare(r.validation.percentage.num, n),
              totalWords   |-> n,
              invalidWords |-> r.validation.invalidWords]
    ELSE ValidationOf(r.decrypted.str, b)

\* Step 3, the body of the third try/catch after the await, r being how the
\* awaited breakVigenere settled
VigenereStep(r, results, b) ==
  IF r.kind # "object" \/ ~Truthy(r.decrypted) THEN GoOn(results)
  ELSE IF r.decrypted.type # "string" THEN GoOn(results)     \* decrypted.split throws
  ELSE
    LET validation == VigenereValidation(r, b)
        pushed     == Append(results,
                        Candidate(MethodVigenere, r.key, r.decrypted.str, r.score,
                                  validation, Undefined, Undefined))
    IN  IF r.score.type # "number" THEN GoOn(pushed)
        ELSE IF MeetsThreshold(validation.confidence)
          THEN [results |-> pushed,
                outcome |-> EarlySuccess(MethodVigenere, r.decrypted.str, validation,
                                         r.key, "key", r.key)]
        ELSE GoOn(pushed)

\* a stricter exhaustion check, results.length <= 1: a lone candidate would
\* be thrown away
FewResults(results) ==
  Len(results) <= 1

\* a sort step that is not stable: x goes in front of the elements whose
\* confidence equals its own
InsertBeforeTies(sorted, x) ==
  SelectSeq(sorted, LAMBDA y : ~FracGeq(x.confidence, y.confidence))
    \o << x >>
    \o SelectSeq(sorted, LAMBDA y : FracGeq(x.confidence, y.confidence))

\* results.length === 0
NoResults(results) ==
  Len(results) = 0

\* one step of the stable sort by (a, b) => b.confidence - a.confidence:
\* x goes behind every element whose confidence is not below its own
RECURSIVE InsertByConfidence(_, _)
InsertByConfidence(sorted, x) ==
  IF sorted = << >> THEN << x >>
  ELSE IF FracGeq(Head(sorted).confidence, x.confidence)
    THEN << Head(sorted) >> \o InsertByConfidence(Tail(sorted), x)
  ELSE << x >> \o sorted

RECURSIVE SortFrom(_, _)
SortFrom(sorted, rest) ==
  IF rest = << >> THEN sorted
  ELSE SortFrom(InsertByConfidence(sorted, Head(rest)), Tail(rest))

\* results.sort((a, b) => b.confidence - a.confidence)
SortByConfidence(results) ==
  SortFrom(<< >>, results)

\* the params of the fallback outcome, read back from the candidate's key
FallbackParams(bestResult) ==
  IF bestResult.method = MethodCaesar
    THEN [name |-> "shift", value |-> parseInt(bestResult.key)]
  ELSE IF bestResult.method = MethodRailFence
    THEN [name |-> "rails", value |-> parseInt(bestResult.key)]
  ELSE [name |-> "key", value |-> bestResult.key]

\* a fallback that gives up whatever was collected
AlwaysExhausted(results) ==
  [results |-> results, outcome |-> Raised("No valid decryption results found")]

\* the code after the third try/catch: the exhaustion check, the sort (in
\* place) and the outcome built from results[0]
FallbackStep(results) ==
  IF NoResults(results)
    THEN [results |-> results, outcome |-> Raised("No valid decryption results found")]
    ELSE
      LET sorted     == SortByConfidence(results)
          bestResult == sorted[1]
      IN  [results |-> sorted,
           outcome |->
             [kind       |-> "returned",
              success    |-> FALSE,
              method     |-> bestResult.method,
              decrypted  |-> bestResult.decrypted,
              confidence |-> bestResult.confidence,
              key        |-> bestResult.key,
              params     |-> FallbackParams(bestResult),
              details    |-> [confidence   |-> << >>,
                              validWords   |-> bestResult.additionalInfo.validWords,
                              totalWords   |-> bestResult.additionalInfo.totalWords,
                              invalidWords |-> bestResult.additionalInfo.invalidWords],
              error      |-> ""]]

(***************************************************************************)
(* Inputs of the model: dictionaries, ciphertexts, and what the three      *)
(* collaborators (vigenere.js, 'combine caesar and rail fence.js') answer  *)
(***************************************************************************)
CipherA ==
  Str(<< "W","k","h" >>)

CipherB ==
  Str(<< "x","y" >>)

\* what a request may carry as ciphertext: nothing, the empty string, a
\* number, or one of two strings
Inputs ==
  { Undefined, Str(<< >>), Num(42), CipherA, CipherB }

\* the calls of breakCipher on the one instance, numbered as they arrive
NumCalls ==
  2

Calls ==
  1 .. NumCalls

\* what breakCaesar and breakRailFence can do: throw, return nothing, or
\* return an object whose text, key (shift or rails) and score are present
\* or not
ClassicResult(kind, text, key, score) ==
  [kind |-> kind, text |-> text, shift |-> key, rails |-> key, score |-> score]

ClassicResults ==
  { ClassicResult("throws",  Undefined, Undefined, Undefined),
    ClassicResult("nothing", Undefined, Undefined, Undefined),
    ClassicResult("object",  Undefined, Num(3), Num(120)),
    ClassicResult("object",  Num(42), Num(3), Num(120)),
    ClassicResult("object",  Str(TextAllValid), Undefined, Num(120)),
    ClassicResult("object",  Str(TextAllValid), Num(3), Undefined) }
  \cup { ClassicResult("object", Str(t), Num(3), Num(120)) :
           t \in { TextAllValid, TextHalfValid, TextNoneValid, TextNinety } }

\* what breakVigenere can do: throw, reject, resolve with nothing, or resolve
\* with an object that carries its own validation percentage or none
VigenereResult(kind, decrypted, score, hasValidation, percentage) ==
  [kind       |-> kind,
   decrypted  |-> decrypted,
   key        |-> IF kind = "object" THEN Str(<< "K","E","Y" >>) ELSE Undefined,
   score      |-> score,
   validation |-> [defined      |-> hasValidation,
                   percentage   |-> percentage,
                   invalidWords |-> IF hasValidation /\ percentage.type = "number"
                                      THEN << << "X","Q" >> >> ELSE << >>]]

Percentages ==
  { 0 - 50, 0, 50, 90, 100, 150 }

VigenereResults ==
  { VigenereResult("throws",  Undefined, Undefined, FALSE, Undefined),
    VigenereResult("rejects", Undefined, Undefined, FALSE, Undefined),
    VigenereResult("nothing", Undefined, Undefined, FALSE, Undefined),
    VigenereResult("object",  Undefined, Num(120), FALSE, Undefined),
    VigenereResult("object",  Num(42), Num(120), TRUE, Num(50)),
    VigenereResult("object",  Str(TextHalfValid), Undefined, TRUE, Num(100)),
    VigenereResult("object",  Str(TextHalfValid), Num(120), TRUE, Undefined) }
  \cup { VigenereResult("object", Str(TextHalfValid), Num(120), TRUE, Num(p)) :
           p \in Percentages }
  \cup { VigenereResult("object", Str(t), Num(120), FALSE, Undefined) :
           t \in { TextAllValid, TextNoneValid } }

\* the answers the model draws from for a ciphertext: every answer for the
\* first ciphertext, a few for the second
ClassicResultsFor(ciphertext) ==
  IF ciphertext = CipherB
    THEN { r \in ClassicResults : r.kind = "throws" \/ r.text = Str(TextHalfValid) }
    ELSE ClassicResults

VigenereResultsFor(ciphertext) ==
  IF ciphertext = CipherB
    THEN { r \in VigenereResults :
             r.kind = "rejects" \/ (r.validation.percentage = Num(100) /\ r.score.type = "number") }
    ELSE VigenereResults

(***************************************************************************)
(* State                                                                   *)
(***************************************************************************)
VARIABLES
  load,        \* what the clients will send: how many calls, with which inputs
  breaker,     \* the UniversalCipherBreaker instance of main.js
  answers,     \* per ciphertext and collaborator: << >> before the first
               \* invocation, << r >> once the collaborator answered r
  running,     \* the call whose synchronous code runs, or 0
  pc,          \* per call: where breakCipher stands
  ciphertext,  \* per call: the argument
  results,     \* per call: the local array results
  invoked,     \* per call: the collaborators invoked so far, in order
  failed,      \* per call: the methods whose step ended without completing
  pending,     \* per call: how the awaited breakVigenere will settle
  overlapped,  \* the calls during whose suspension another call ran
  outcome,     \* per call: what breakCipher returned or raised
  validated,   \* per call: the values handed to validateText, in order
  response,    \* per call: what POST /api/break-cipher answered, if it did
  arg,         \* the arguments of a method applied on its own
  ret          \* what that method returned

vars ==
  << load, breaker, answers, running, pc, ciphertext, results, invoked, failed, pending,
     overlapped, outcome, validated, response, arg, ret >>

\* the handler has not answered
NoResponse ==
  [status |-> 0, success |-> << >>, error |-> "", results |-> << >>]

Unasked ==
  [caesar |-> << >>, railFence |-> << >>, vigenere |-> << >>]

\* nothing was called yet: no collaborator answered, no call of breakCipher
\* started, no request was answered
NothingCalled ==
  /\ answers = [i \in Inputs |-> Unasked]
  /\ running = 0
  /\ pc = [c \in Calls |-> "idle"]
  /\ ciphertext = [c \in Calls |-> Undefined]
  /\ results = [c \in Calls |-> << >>]
  /\ invoked = [c \in Calls |-> << >>]
  /\ failed = [c \in Calls |-> {}]
  /\ pending = [c \in Calls |-> << >>]
  /\ overlapped = {}
  /\ outcome = [c \in Calls |-> NoOutcome]
  /\ validated = [c \in Calls |-> << >>]
  /\ response = [c \in Calls |-> NoResponse]

\* the state after construction, before the first call
Constructs ==
  /\ breaker \in Instances
  /\ NothingCalled

\* no method is applied on its own
NotApplied ==
  arg = << >> /\ ret = << >>

\* every call may carry every input
Init ==
  /\ load = [calls |-> NumCalls, inputs |-> Inputs]
  /\ Constructs
  /\ NotApplied

\* one call with every input, or every call with the inputs whose answers
\* are few
FairInit ==
  /\ load \in { [calls |-> 1, inputs |-> Inputs],
                [calls |-> NumCalls, inputs |-> Inputs \ {CipherA}] }
  /\ Constructs
  /\ NotApplied

\* what Step 1 and Step 2 hand to validateText: the text of the result, when
\* the result and its text are truthy
ClassicValidated(method, r) ==
  IF r.kind = "object" /\ Truthy(r.text)
    THEN << [step |-> method, text |-> r.text] >> ELSE << >>

\* what Step 3 hands to validateText: the decrypted text, unless the result
\* carries a numeric validation percentage
VigenereValidated(r) ==
  IF r.kind = "object" /\ Truthy(r.decrypted)
       /\ ~(r.validation.defined /\ r.validation.percentage.type = "number")
    THEN << [step |-> MethodVigenere, text |-> r.decrypted] >> ELSE << >>

\* one array for all calls, as a field of the instance would be
SharedResults(c) ==
  1

\* an instance that loses its Words.json dictionary once a call has returned
DictionaryDropped(b, o) ==
  Constructed([defined |-> FALSE, words |-> {}],
              b.vigenereCommonWords, b.classicCommonWords)

\* the array a call pushes its candidates on: const results = [] is local
\* to the call
ResultsOf(c) ==
  c

\* breakCipher assigns no field of the instance
InstanceAfter(b, o) ==
  b

\* a collaborator is a function of the ciphertext: the first invocation
\* fixes its answer
Answers(asked, domain, r) ==
  IF asked = << >> THEN r \in domain ELSE asked = << r >>

\* a step ended in its catch block, or found no text to record
StepFailed(before, step, r) ==
  step.outcome.kind = "none"
    /\ (\/ step.results = before
        \/ r.score.type # "number")

\* what a finished step leaves behind for call c
Finish(c, step, next) ==
  /\ results' = [results EXCEPT ![ResultsOf(c)] = step.results]
  /\ IF step.outcome.kind = "none"
       THEN /\ pc' = [pc EXCEPT ![c] = next]
            /\ running' = c
            /\ UNCHANGED << outcome, breaker >>
       ELSE /\ pc' = [pc EXCEPT ![c] = "done"]
            /\ running' = 0
            /\ outcome' = [outcome EXCEPT ![c] = step.outcome]
            /\ breaker' = InstanceAfter(breaker, step.outcome)

(***************************************************************************)
(* Actions                                                                 *)
(***************************************************************************)
\* breakCipher(input) is called: the argument check, and const results = []
Call(c, input) ==
  /\ running = 0
  /\ pc[c] = "idle"
  /\ c <= load.calls
  /\ input \in load.inputs
  /\ \A earlier \in Calls : earlier < c => pc[earlier] # "idle"
  /\ ciphertext' = [ciphertext EXCEPT ![c] = input]
  /\ IF InvalidCiphertext(input)
       THEN /\ pc' = [pc EXCEPT ![c] = "done"]
            /\ outcome' = [outcome EXCEPT ![c] = Raised("Invalid ciphertext provided")]
            /\ UNCHANGED << running, results >>
       ELSE /\ pc' = [pc EXCEPT ![c] = "caesar"]
            /\ running' = c
            /\ results' = [results EXCEPT ![ResultsOf(c)] = << >>]
            /\ UNCHANGED outcome
  /\ overlapped' = overlapped \cup { d \in Calls : pc[d] = "awaiting" }
  /\ UNCHANGED << load, breaker, answers, invoked, failed, pending >>
  /\ UNCHANGED << validated, response, arg, ret >>

\* Step 1: breakCaesar, validation, push, threshold check
TryCaesar(c) ==
  /\ running = c
  /\ pc[c] = "caesar"
  /\ \E r \in ClassicResultsFor(ciphertext[c]) :
       /\ Answers(answers[ciphertext[c]].caesar, ClassicResultsFor(ciphertext[c]), r)
       /\ answers' = [answers EXCEPT ![ciphertext[c]].caesar = << r >>]
       /\ invoked' = [invoked EXCEPT ![c] = Append(@, MethodCaesar)]
       /\ validated' = [validated EXCEPT ![c] = @ \o ClassicValidated(MethodCaesar, r)]
       /\ \E step \in { CaesarStep(r, results[ResultsOf(c)], breaker) } :
            /\ failed' = [failed EXCEPT ![c] =
                            IF StepFailed(results[ResultsOf(c)], step, r)
                              THEN @ \cup {MethodCaesar} ELSE @]
            /\ Finish(c, step, "railFence")
  /\ UNCHANGED << load, ciphertext, pending, overlapped, response, arg, ret >>

\* Step 2: breakRailFence, validation, push, threshold check
TryRailFence(c) ==
  /\ running = c
  /\ pc[c] = "railFence"
  /\ \E r \in ClassicResultsFor(ciphertext[c]) :
       /\ Answers(answers[ciphertext[c]].railFence, ClassicResultsFor(ciphertext[c]), r)
       /\ answers' = [answers EXCEPT ![ciphertext[c]].railFence = << r >>]
       /\ invoked' = [invoked EXCEPT ![c] = Append(@, MethodRailFence)]
       /\ validated' = [validated EXCEPT ![c] = @ \o ClassicValidated(MethodRailFence, r)]
       /\ \E step \in { RailFenceStep(r, results[ResultsOf(c)], breaker) } :
            /\ failed' = [failed EXCEPT ![c] =
                            IF StepFailed(results[ResultsOf(c)], step, r)
                              THEN @ \cup {MethodRailFence} ELSE @]
            /\ Finish(c, step, "vigenere")
  /\ UNCHANGED << load, ciphertext, pending, overlapped, response, arg, ret >>

\* breakVigenere invoked without await: the call runs on to the ranking
\* while the promise is pending
InvokeWithoutAwait(c) ==
  /\ running = c
  /\ pc[c] = "vigenere"
  /\ \E r \in VigenereResultsFor(ciphertext[c]) :
       /\ Answers(answers[ciphertext[c]].vigenere, VigenereResultsFor(ciphertext[c]), r)
       /\ answers' = [answers EXCEPT ![ciphertext[c]].vigenere = << r >>]
       /\ invoked' = [invoked EXCEPT ![c] = Append(@, MethodVigenere)]
       /\ pending' = [pending EXCEPT ![c] = << r >>]
  /\ pc' = [pc EXCEPT ![c] = "fallback"]
  /\ UNCHANGED << load, breaker, ciphertext, results, overlapped, outcome, running, failed >>
  /\ UNCHANGED << validated, response, arg, ret >>

\* Step 3, first half: breakVigenere is invoked. A synchronous throw is
\* caught at once and the call runs on; otherwise the call is suspended at
\* the await until the promise settles
InvokeVigenere(c) ==
  /\ running = c
  /\ pc[c] = "vigenere"
  /\ \E r \in VigenereResultsFor(ciphertext[c]) :
       /\ Answers(answers[ciphertext[c]].vigenere, VigenereResultsFor(ciphertext[c]), r)
       /\ answers' = [answers EXCEPT ![ciphertext[c]].vigenere = << r >>]
       /\ invoked' = [invoked EXCEPT ![c] = Append(@, MethodVigenere)]
       /\ IF r.kind = "throws"
            THEN /\ pc' = [pc EXCEPT ![c] = "fallback"]
                 /\ failed' = [failed EXCEPT ![c] = @ \cup {MethodVigenere}]
                 /\ UNCHANGED << running, pending >>
            ELSE /\ pc' = [pc EXCEPT ![c] = "awaiting"]
                 /\ pending' = [pending EXCEPT ![c] = << r >>]
                 /\ running' = 0
                 /\ UNCHANGED failed
  /\ UNCHANGED << load, breaker, ciphertext, results, overlapped, outcome >>
  /\ UNCHANGED << validated, response, arg, ret >>

\* Step 3, second half: the promise settled and the call resumes
ResumeVigenere(c) ==
  /\ running = 0
  /\ pc[c] = "awaiting"
  /\ \E r \in Range(pending[c]) :
       \E step \in { VigenereStep(r, results[ResultsOf(c)], breaker) } :
         /\ validated' = [validated EXCEPT ![c] = @ \o VigenereValidated(r)]
         /\ failed' = [failed EXCEPT ![c] =
                         IF StepFailed(results[ResultsOf(c)], step, r)
                           THEN @ \cup {MethodVigenere} ELSE @]
         /\ Finish(c, step, "fallback")
  /\ pending' = [pending EXCEPT ![c] = << >>]
  /\ overlapped' = overlapped \cup { d \in Calls : d # c /\ pc[d] = "awaiting" }
  /\ UNCHANGED << load, answers, ciphertext, invoked, response, arg, ret >>

\* no step returned: the exhaustion check and the ranking
Fallback(c) ==
  /\ running = c
  /\ pc[c] = "fallback"
  /\ \E step \in { FallbackStep(results[ResultsOf(c)]) } : Finish(c, step, "done")
  /\ UNCHANGED << load, answers, ciphertext, invoked, failed, pending, overlapped >>
  /\ UNCHANGED << validated, response, arg, ret >>

Next ==
  \/ \E c \in Calls, input \in Inputs : Call(c, input)
  \/ \E c \in Calls : TryCaesar(c)
  \/ \E c \in Calls : TryRailFence(c)
  \/ \E c \in Calls : InvokeVigenere(c)
  \/ \E c \in Calls : ResumeVigenere(c)
  \/ \E c \in Calls : Fallback(c)

Spec ==
  Init /\ [][Next]_vars

\* the steps of a call that has started; the synchronous ones run on
\* without waiting, and the awaited breakVigenere is taken to settle
Step(c) ==
  \/ TryCaesar(c)
  \/ TryRailFence(c)
  \/ InvokeVigenere(c)
  \/ ResumeVigenere(c)
  \/ Fallback(c)

FairSpec ==
  FairInit /\ [][Next]_vars /\ \A c \in Calls : WF_vars(Step(c))

(***************************************************************************)
(* POST /api/break-cipher                                                  *)
(***************************************************************************)
\* the fields of the object breakCipher returns
OutcomeFields ==
  { "success", "method", "decrypted", "confidence", "key", "params", "details" }

\* res.status(400).json({ error: 'Missing ciphertext in request body' })
BadRequest ==
  [status |-> 400, success |-> << >>, error |-> "Missing ciphertext in request body",
   results |-> << >>]

\* res.status(500).json({ success: false, error: error.message })
ServerError(message) ==
  [status |-> 500, success |-> << FALSE >>, error |-> message, results |-> << >>]

\* res.json({ success: true, results: [...], finalAnalysis })
Formatted(o) ==
  [status |-> 200, success |-> << TRUE >>, error |-> "",
   results |-> << [method |-> o.method, key |-> o.key, decrypted |-> o.decrypted] >>]

\* what the handler answers once breakCipher has settled: an error thrown
\* by breakCipher goes to the catch block; an outcome is formatted, and
\* the formatting reads result.rawScore.toFixed(2), which throws into the
\* same catch block when the outcome has no rawScore
HandlerReply(o) ==
  IF o.kind = "raised" THEN ServerError(o.error)
  ELSE IF "rawScore" \notin OutcomeFields
    THEN ServerError("Cannot read properties of undefined (reading 'toFixed')")
  ELSE Formatted(o)

\* a request arrives: 400 when req.body.ciphertext is falsy, otherwise
\* breaker.breakCipher(ciphertext) is called
Request(c, input) ==
  IF Truthy(input)
    THEN Call(c, input)
    ELSE /\ running = 0
         /\ pc[c] = "idle"
         /\ c <= load.calls
         /\ input \in load.inputs
         /\ \A earlier \in Calls : earlier < c => pc[earlier] # "idle"
         /\ ciphertext' = [ciphertext EXCEPT ![c] = input]
         /\ pc' = [pc EXCEPT ![c] = "answered"]
         /\ response' = [response EXCEPT ![c] = BadRequest]
         /\ UNCHANGED << load, breaker, answers, running, results, invoked, failed,
                         pending, overlapped, outcome, validated, arg, ret >>

\* the awaited breakCipher settled: the handler formats and answers
Respond(c) ==
  /\ running = 0
  /\ pc[c] = "done"
  /\ pc' = [pc EXCEPT ![c] = "answered"]
  /\ response' = [response EXCEPT ![c] = HandlerReply(outcome[c])]
  /\ UNCHANGED << load, breaker, answers, running, ciphertext, results, invoked, failed,
                  pending, overlapped, outcome, validated, arg, ret >>

HttpNext ==
  \/ \E c \in Calls, input \in Inputs : Request(c, input)
  \/ \E c \in Calls : TryCaesar(c)
  \/ \E c \in Calls : TryRailFence(c)
  \/ \E c \in Calls : InvokeVigenere(c)
  \/ \E c \in Calls : ResumeVigenere(c)
  \/ \E c \in Calls : Fallback(c)
  \/ \E c \in Calls : Respond(c)

\* the breaker behind the endpoint: every call comes from a request
HttpSpec ==
  FairInit /\ [][HttpNext]_vars

(***************************************************************************)
(* validateText applied on its own to short texts                          *)
(***************************************************************************)
\* the longest text validateText is applied to
MaxLen ==
  4

\* letters of both cases, in a dictionary or in none, a digit and a space
Alphabet ==
  { "a", "A", "x", "q", "4", " " }

ShortTexts ==
  UNION { [1 .. n -> Alphabet] : n \in 0 .. MaxLen }

\* the rest of the state while a method is applied on its own: the
\* instance is constructed and breakCipher is not called
NoCalls ==
  /\ load = [calls |-> 0, inputs |-> {}]
  /\ Constructs

ValidateInit ==
  /\ NoCalls
  /\ arg \in { << t >> : t \in ShortTexts }
  /\ ret = << >>

\* this.validateText(text)
ApplyValidateText ==
  /\ Len(arg) = 1
  /\ ret = << >>
  /\ ret' = << validateText(arg[1], breaker) >>
  /\ UNCHANGED << load, breaker, answers, running, pc, ciphertext, results, invoked,
                  failed, pending, overlapped, outcome, validated, response, arg >>

ValidateSpec ==
  ValidateInit /\ [][ApplyValidateText]_vars

(***************************************************************************)
(* validateText under every dictionary construction can leave              *)
(***************************************************************************)
\* Words.json: { "commonWords": [] }
EmptyWordsJson ==
  {}

\* a word list a breaker exposes as commonWords with entries in lower case
LowerCaseWords ==
  { << "a" >>, << "x", "q" >> }

\* the instances of the model, the instance whose Words.json holds no word
\* and the instances whose Words.json is unreadable while a breaker keeps
\* its words in lower case
DictionaryInstances ==
  Instances \cup
  { Constructed([defined |-> TRUE, words |-> EmptyWordsJson],
                [defined |-> TRUE, words |-> VigenereWords],
                [defined |-> TRUE, words |-> ClassicWords]),
    Constructed([defined |-> FALSE, words |-> {}],
                [defined |-> TRUE, words |-> LowerCaseWords],
                [defined |-> TRUE, words |-> ClassicWords]),
    Constructed([defined |-> FALSE, words |-> {}],
                [defined |-> TRUE, words |-> VigenereWords],
                [defined |-> TRUE, words |-> LowerCaseWords]) }

DictionaryInit ==
  /\ load = [calls |-> 0, inputs |-> {}]
  /\ breaker \in DictionaryInstances
  /\ NothingCalled
  /\ arg \in { << t >> : t \in ShortTexts }
  /\ ret = << >>

DictionarySpec ==
  DictionaryInit /\ [][ApplyValidateText]_vars

(***************************************************************************)
(* normalizeScore applied on its own                                       *)
(*                                                                         *)
(* A JavaScript number is a fraction, an infinity or NaN.                  *)
(***************************************************************************)
Finite(n, d) ==
  [k |-> "finite", num |-> n, den |-> d]

RECURSIVE Gcd(_, _)
Gcd(a, b) ==
  IF b = 0 THEN a ELSE Gcd(b, a % b)

\* the fraction n / d in lowest terms, d > 0
Lowest(n, d) ==
  LET g == Gcd(IF n < 0 THEN 0 - n ELSE n, d)
  IN  Finite(n \div g, d \div g)

Infinity ==
  [k |-> "Infinity", num |-> 1, den |-> 1]

MinusInfinity ==
  [k |-> "-Infinity", num |-> 0 - 1, den |-> 1]

NaN ==
  [k |-> "NaN", num |-> 0, den |-> 1]

\* a value that is not a number: undefined, or a string
NotANumber(what) ==
  [k |-> what, num |-> 0, den |-> 1]

\* typeof x === 'number'
TypeofNumber(x) ==
  x.k \in {"finite", "Infinity", "-Infinity", "NaN"}

\* x <= y for two numbers neither of which is NaN
Leq(x, y) ==
  IF x.k = "-Infinity" \/ y.k = "Infinity" THEN TRUE
  ELSE IF x.k = "Infinity" \/ y.k = "-Infinity" THEN FALSE
  ELSE x.num * y.den <= y.num * x.den

\* x === y for two numbers
Same(x, y) ==
  x.k = y.k /\ x.k # "NaN" /\ x.num * y.den = y.num * x.den

\* Math.max(x, y)
MathMax(x, y) ==
  IF x.k = "NaN" \/ y.k = "NaN" THEN NaN
  ELSE IF Leq(x, y) THEN y ELSE x

\* Math.min(x, y)
MathMin(x, y) ==
  IF x.k = "NaN" \/ y.k = "NaN" THEN NaN
  ELSE IF Leq(x, y) THEN x ELSE y

\* x * y
Times(x, y) ==
  IF x.k = "NaN" \/ y.k = "NaN" THEN NaN
  ELSE IF x.k = "finite" /\ y.k = "finite" THEN Lowest(x.num * y.num, x.den * y.den)
  ELSE IF x.num = 0 \/ y.num = 0 THEN NaN
  ELSE IF (x.num > 0) = (y.num > 0) THEN Infinity ELSE MinusInfinity

\* x + y for finite x and y
Plus(x, y) ==
  Lowest(x.num * y.den + y.num * x.den, x.den * y.den)

\* x / n for a positive integer n
DividedBy(x, n) ==
  IF x.k = "finite" THEN Lowest(x.num, x.den * n) ELSE x

\* this.scoreWeights
scoreWeights ==
  [caesar |-> Finite(12, 10), railFence |-> Finite(8, 10), vigenere |-> Finite(7, 10)]

\* property names every object inherits from Object.prototype; their values
\* are functions
InheritedNames ==
  { "toString", "constructor" }

\* what normalizedScore is multiplied by: this.scoreWeights[method] || 1.0.
\* An inherited function is truthy, and as a factor it converts to NaN
WeightFactor(method) ==
  IF method \in DOMAIN scoreWeights THEN scoreWeights[method]
  ELSE IF method \in InheritedNames THEN NaN
  ELSE Finite(1, 1)

\* options = {} by default, or what the caller passes: null, or an object
\* with validWordPercentage (absent: << >>) and preservesSpaces
Options(isNull, validWordPercentage, preservesSpaces) ==
  [isNull              |-> isNull,
   validWordPercentage |-> validWordPercentage,
   preservesSpaces     |-> preservesSpaces]

\* normalizedScore *= (0.3 + 0.7 * wordScore) with
\* wordScore = Math.max(0, Math.min(100, p)) / 100
WordBonus(p) ==
  LET wordScore == DividedBy(MathMax(Finite(0, 1), MathMin(Finite(100, 1), p)), 100)
  IN  Plus(Finite(3, 10), Times(Finite(7, 10), wordScore))

\* normalizeScore(method, rawScore, options)
normalizeScore(method, rawScore, options) ==
  IF ~TypeofNumber(rawScore) \/ rawScore.k = "NaN" THEN Finite(0, 1)
  ELSE IF options.isNull THEN Finite(0, 1)        \* options.validWordPercentage throws
  ELSE
    LET base     == DividedBy(MathMax(Finite(0, 1), rawScore), 1000)
        weighted == Times(base, WeightFactor(method))
        worded   == IF options.validWordPercentage # << >>
                         /\ options.validWordPercentage[1].num # 0
                      THEN Times(weighted, WordBonus(options.validWordPercentage[1]))
                      ELSE weighted
        spaced   == IF options.preservesSpaces
                      THEN Times(worded, Finite(12, 10)) ELSE worded
    IN  MathMax(Finite(0, 1), MathMin(Finite(1, 1), spaced))

Methods ==
  { "caesar", "railFence", "vigenere", "unknown", "toString" }

RawScores ==
  { Finite(n, 1) : n \in { 0 - 5, 0, 250, 500, 1000, 2500 } }
    \cup { Infinity, MinusInfinity, NaN, NotANumber("undefined"), NotANumber("string") }

WordPercentages ==
  { << >> } \cup { << Finite(p, 1) >> : p \in { 0 - 20, 0, 1, 50, 100, 150 } }

OptionsGiven ==
  { Options(FALSE, p, s) : p \in WordPercentages, s \in BOOLEAN }
    \cup { Options(TRUE, << >>, FALSE) }

NormalizeInit ==
  /\ NoCalls
  /\ arg \in { << m, r, o >> : m \in Methods, r \in RawScores, o \in OptionsGiven }
  /\ ret = << >>

\* this.normalizeScore(method, rawScore, options)
ApplyNormalizeScore ==
  /\ Len(arg) = 3
  /\ ret = << >>
  /\ ret' = << normalizeScore(arg[1], arg[2], arg[3]) >>
  /\ UNCHANGED << load, breaker, answers, running, pc, ciphertext, results, invoked,
                  failed, pending, overlapped, outcome, validated, response, arg >>

NormalizeSpec ==
  NormalizeInit /\ [][ApplyNormalizeScore]_vars

(***************************************************************************)
(* Vocabulary of the properties                                            *)
(***************************************************************************)
Cascade ==
  << MethodCaesar, MethodRailFence, MethodVigenere >>

MethodRank(m) ==
  CHOOSE i \in DOMAIN Cascade : Cascade[i] = m

IsPrefixOf(s, t) ==
  Len(s) <= Len(t) /\ \A i \in DOMAIN s : s[i] = t[i]

\* confidence >= 0.9
AtLeastNineTenths(confidence) ==
  10 * confidence.num >= 9 * confidence.den

\* 0 <= confidence <= 1
InUnitInterval(confidence) ==
  0 <= confidence.num /\ confidence.num <= confidence.den

\* a ciphertext that is a non-empty string
NonEmptyString(v) ==
  v.type = "string" /\ v.str # << >>

CandidatesOf(c, m) ==
  { i \in DOMAIN results[c] : results[c][i].method = m }

\* the outcome carries the fields of candidate k
TakenFrom(o, k) ==
  /\ o.method = k.method
  /\ o.decrypted = k.decrypted
  /\ o.confidence = k.confidence
  /\ o.key = k.key
  /\ o.params.name = (IF k.method = MethodCaesar THEN "shift"
                      ELSE IF k.method = MethodRailFence THEN "rails" ELSE "key")
  /\ o.params.value = (IF k.method = MethodCaesar THEN k.additionalInfo.shiftValue
                       ELSE IF k.method = MethodRailFence THEN k.additionalInfo.rails
                       ELSE k.key)

(***************************************************************************)
(* C1                                                                      *)
(***************************************************************************)
\* C1 (as claimed): in every call the collaborators are invoked in the order
\* Caesar, Rail Fence, Vigenere, and when the Caesar candidate has confidence
\* >= 0.9 neither breakRailFence nor breakVigenere is invoked.
C1_OrderAndCaesarExit ==
  \A c \in Calls :
    /\ IsPrefixOf(invoked[c], Cascade)
    /\ (\E i \in CandidatesOf(c, MethodCaesar) : AtLeastNineTenths(results[c][i].confidence))
         => invoked[c] = << MethodCaesar >>

(***************************************************************************)
(* C2                                                                      *)
(***************************************************************************)
\* C2 (as claimed): whenever the candidate recorded for a strategy has
\* confidence >= 0.9, breakCipher has returned success = true with the
\* method, text, confidence, key and params of that candidate, and no later
\* strategy was invoked.
C2_ThresholdReturnsAtOnce ==
  \A c \in Calls : \A i \in DOMAIN results[c] :
    AtLeastNineTenths(results[c][i].confidence)
      => /\ pc[c] = "done"
         /\ outcome[c].kind = "returned"
         /\ outcome[c].success
         /\ TakenFrom(outcome[c], results[c][i])
         /\ invoked[c][Len(invoked[c])] = results[c][i].method

(***************************************************************************)
(* C3                                                                      *)
(***************************************************************************)
\* candidate k of rs has the greatest confidence, and among the candidates
\* of that confidence it is the one of the earliest strategy
EarliestBest(rs, k) ==
  \A j \in DOMAIN rs :
    /\ FracGeq(rs[k].confidence, rs[j].confidence)
    /\ FracEq(rs[k].confidence, rs[j].confidence)
         => MethodRank(rs[k].method) <= MethodRank(rs[j].method)

\* C3: when no step returned and a candidate was collected, the next step of
\* the call returns success = false with the fields of a candidate of
\* maximal confidence, the earliest-attempted one among equals.
C3_FallbackReturnsEarliestBest ==
  [][ \A c \in Calls :
        (pc[c] = "fallback" /\ results[c] # << >>)
          => /\ pc'[c] = "done"
             /\ outcome'[c].kind = "returned"
             /\ ~outcome'[c].success
             /\ \E k \in DOMAIN results[c] :
                  /\ EarliestBest(results[c], k)
                  /\ outcome'[c].method = results[c][k].method
                  /\ outcome'[c].decrypted = results[c][k].decrypted
                  /\ outcome'[c].confidence = results[c][k].confidence
                  /\ outcome'[c].key = results[c][k].key ]_vars

\* a call returned success = false from three candidates of which a later
\* one ties with the returned one
C3_Witness ==
  \E c \in Calls :
    /\ pc[c] = "done"
    /\ outcome[c].kind = "returned"
    /\ ~outcome[c].success
    /\ Len(results[c]) = 3
    /\ \E j \in DOMAIN results[c] :
         /\ results[c][j].method # outcome[c].method
         /\ MethodRank(results[c][j].method) > MethodRank(outcome[c].method)
         /\ FracEq(results[c][j].confidence, outcome[c].confidence)
    /\ \E j \in DOMAIN results[c] :
         ~FracGeq(results[c][j].confidence, outcome[c].confidence)

(***************************************************************************)
(* C4                                                                      *)
(***************************************************************************)
\* C4 (as claimed): every recorded candidate and every returned outcome has
\* a confidence between 0 and 1.
C4_ConfidenceInUnitInterval ==
  \A c \in Calls :
    /\ \A i \in DOMAIN results[c] : InUnitInterval(results[c][i].confidence)
    /\ outcome[c].kind = "returned" => InUnitInterval(outcome[c].confidence)

(***************************************************************************)
(* C5                                                                      *)
(***************************************************************************)
\* C5: a call whose ciphertext is missing, empty or not a string has failed
\* with the input error and invoked no collaborator.
C5_InvalidInputFailsFirst ==
  \A c \in Calls :
    (pc[c] # "idle" /\ ~NonEmptyString(ciphertext[c]))
      => /\ pc[c] = "done"
         /\ outcome[c].kind = "raised"
         /\ outcome[c].error = "Invalid ciphertext provided"
         /\ invoked[c] = << >>

\* a call given a number, and a call given the empty string, both failed
C5_Witness ==
  /\ \E c \in Calls :
       pc[c] = "done" /\ ciphertext[c].type = "number" /\ outcome[c].kind = "raised"
  /\ \E c \in Calls :
       pc[c] = "done" /\ ciphertext[c] = Str(<< >>) /\ outcome[c].kind = "raised"

(***************************************************************************)
(* C6                                                                      *)
(***************************************************************************)
\* C6 (as claimed): a strategy whose step failed (the collaborator threw or
\* returned nothing usable, or the step raised) has no entry in the list of
\* candidates, and the call goes on to the strategy after it (the call is
\* not over while a strategy after the failed one remains to be invoked,
\* unless a later step returned).
C6_FailedStepLeavesNoCandidate ==
  \A c \in Calls : \A m \in failed[c] :
    /\ CandidatesOf(c, m) = {}
    /\ outcome[c].kind # "raised" \/ invoked[c] = Cascade
    /\ (pc[c] = "done" /\ MethodRank(m) < Len(Cascade))
         => \E i \in DOMAIN invoked[c] : invoked[c][i] = Cascade[MethodRank(m) + 1]

(***************************************************************************)
(* C7                                                                      *)
(***************************************************************************)
\* C7: a call with a non-empty string ends by raising exactly when all three
\* strategies were invoked and no candidate was collected; otherwise it
\* ends by returning an outcome.
C7_RaisesOnlyOnExhaustion ==
  \A c \in Calls :
    (pc[c] = "done" /\ NonEmptyString(ciphertext[c]))
      => /\ outcome[c].kind \in {"returned", "raised"}
         /\ outcome[c].kind = "raised" <=> (invoked[c] = Cascade /\ results[c] = << >>)

\* one call raised after three failed steps, and another returned the one
\* candidate it had collected
C7_Witness ==
  /\ \E c \in Calls :
       /\ pc[c] = "done" /\ NonEmptyString(ciphertext[c])
       /\ outcome[c].kind = "raised" /\ Cardinality(failed[c]) = 3
  /\ \E c \in Calls :
       /\ pc[c] = "done" /\ outcome[c].kind = "returned"
       /\ ~outcome[c].success /\ Len(results[c]) = 1

(***************************************************************************)
(* C8                                                                      *)
(***************************************************************************)
\* the answer of a collaborator that call c invoked is a result of the
\* documented shape with a non-empty text: a string text, a key and a
\* numeric score
ProducedText(c) ==
  LET a == answers[ciphertext[c]] IN
  \/ \E r \in Range(a.caesar) :
       /\ Len(invoked[c]) >= 1
       /\ r.kind = "object" /\ NonEmptyString(r.text)
       /\ r.shift.type = "number" /\ r.score.type = "number"
  \/ \E r \in Range(a.railFence) :
       /\ Len(invoked[c]) >= 2
       /\ r.kind = "object" /\ NonEmptyString(r.text)
       /\ r.rails.type = "number" /\ r.score.type = "number"
  \/ \E r \in Range(a.vigenere) :
       /\ Len(invoked[c]) >= 3
       /\ r.kind = "object" /\ NonEmptyString(r.decrypted)
       /\ r.score.type = "number"

C9_SameCiphertextSameOutcome ==
  \A c, d \in Calls :
    (pc[c] = "done" /\ pc[d] = "done" /\ ciphertext[c] = ciphertext[d])
      => outcome[c] = outcome[d]

\* two calls with the same string ended, the first of them with an outcome
\* below the threshold
C9_Witness ==
  \E c, d \in Calls :
    /\ c # d
    /\ pc[c] = "done" /\ pc[d] = "done"
    /\ ciphertext[c] = ciphertext[d]
    /\ outcome[c].kind = "returned" /\ ~outcome[c].success
    /\ outcome[c].details.invalidWords # << >>

(***************************************************************************)
(* C10                                                                     *)
(***************************************************************************)
\* breakCipher run alone on an input, the collaborators answering as they
\* answered it: the steps in sequence, nothing in between
Alone(input) ==
  IF InvalidCiphertext(input)
    THEN [results |-> << >>, outcome |-> Raised("Invalid ciphertext provided")]
    ELSE
      LET a  == answers[input]
          s1 == CaesarStep(a.caesar[1], << >>, breaker)
      IN  IF s1.outcome.kind # "none" THEN s1
          ELSE
            LET s2 == RailFenceStep(a.railFence[1], s1.results, breaker)
            IN  IF s2.outcome.kind # "none" THEN s2
                ELSE
                  LET s3 == IF a.vigenere[1].kind = "throws" THEN GoOn(s2.results)
                            ELSE VigenereStep(a.vigenere[1], s2.results, breaker)
                  IN  IF s3.outcome.kind # "none" THEN s3
                      ELSE FallbackStep(s3.results)

\* C10: calls that interleave at the await do not interfere: a call ends
\* with the outcome (or error) and with the candidate list it has when run
\* alone.
C10_CallsDoNotInterfere ==
  \A c \in Calls :
    pc[c] = "done"
      => /\ outcome[c] = Alone(ciphertext[c]).outcome
         /\ results[c] = Alone(ciphertext[c]).results

\* two calls with different strings, each suspended while the other ran,
\* both ended below the threshold with candidates of their own
C10_Witness ==
  \E c, d \in Calls :
    /\ overlapped = {c, d}
    /\ c # d
    /\ pc[c] = "done" /\ pc[d] = "done"
    /\ ciphertext[c] # ciphertext[d]
    /\ outcome[c].kind = "returned" /\ outcome[d].kind = "returned"
    /\ ~outcome[c].success /\ ~outcome[d].success
    /\ results[c] # results[d]

(***************************************************************************)
(* C11                                                                     *)
(***************************************************************************)
\* the text has no letter: it is empty, or white space only, or each of its
\* tokens is without a letter
NoAlphabeticToken(t) ==
  \A i \in DOMAIN t : ~IsLetter(t[i])

\* C11: for a text that yields no alphabetic token validateText returns
\* confidence 0, validWords 0, totalWords 0 and no invalid words; and the
\* divisor of a confidence it returns is never zero.
C11_NoTokenNoConfidence ==
  ret # << >>
    => /\ ret[1].confidence.den > 0
       /\ NoAlphabeticToken(arg[1])
            => /\ ret[1].confidence = Frac(0, 1)
               /\ ret[1].validWords = 0
               /\ ret[1].totalWords = 0
               /\ ret[1].invalidWords = << >>

\* validateText was applied to " 4 4", white space and tokens without a
\* letter
C11_Witness ==
  /\ arg = << << " ", "4", " ", "4" >> >>
  /\ ret # << >>
  /\ ret[1].totalWords = 0

(***************************************************************************)
(* C12                                                                     *)
(***************************************************************************)
\* the positions at which a token (a run without white space) of t starts
\* that holds a letter
TokenStarts(t) ==
  { i \in DOMAIN t :
      /\ ~IsSpace(t[i])
      /\ i = 1 \/ IsSpace(t[i - 1])
      /\ \E j \in i .. Len(t) : IsLetter(t[j]) /\ \A k \in i .. j : ~IsSpace(t[k]) }

\* the token that starts at i, its letters in upper case
TokenAt(t, i) ==
  LET last == CHOOSE j \in i .. Len(t) :
                /\ \A k \in i .. j : ~IsSpace(t[k])
                /\ j = Len(t) \/ IsSpace(t[j + 1])
      run  == SubSeq(t, i, last)
      kept == SelectSeq(run, IsLetter)
  IN  [k \in DOMAIN kept |-> UpperChar(kept[k])]

\* the n-th smallest element of a set of numbers
Nth(S, n) ==
  CHOOSE i \in S : Cardinality({ j \in S : j < i }) = n - 1

\* C12: for a text with an alphabetic token validateText returns the number
\* of such tokens as totalWords, the number of them in the dictionary as
\* validWords, validWords / totalWords as confidence, and as invalidWords
\* the tokens that are not in the dictionary, in the order of the text.
C12_CountsTokens ==
  (ret # << >> /\ ~NoAlphabeticToken(arg[1]))
    => LET t          == arg[1]
           dictionary == DictionaryInUse(breaker)
           unknown    == { i \in TokenStarts(t) : TokenAt(t, i) \notin dictionary }
           v          == ret[1]
       IN  /\ v.totalWords = Cardinality(TokenStarts(t))
           /\ v.validWords = Cardinality(TokenStarts(t) \ unknown)
           /\ v.confidence = Frac(v.validWords, v.totalWords)
           /\ Len(v.invalidWords) = Cardinality(unknown)
           /\ \A n \in DOMAIN v.invalidWords :
                v.invalidWords[n] = TokenAt(t, Nth(unknown, n))
           /\ v.validWords + Len(v.invalidWords) = v.totalWords
           /\ unknown = {} => (FracEq(v.confidence, Frac(1, 1))
                                 /\ v.validWords = v.totalWords)

\* validateText was applied to "a4 x": of its two tokens A is in the
\* dictionary and X is not
C12_Witness ==
  /\ arg = << << "a", "4", " ", "x" >> >>
  /\ ret # << >>
  /\ ret[1].totalWords = 2
  /\ ret[1].validWords = 1
  /\ ret[1].invalidWords = << << "X" >> >>

(***************************************************************************)
(* C13                                                                     *)
(***************************************************************************)
\* the weight of the claim: 1.2, 0.8, 0.7, and 1.0 for any other method
ClaimedWeight(method) ==
  IF method = "caesar" THEN Finite(12, 10)
  ELSE IF method = "railFence" THEN Finite(8, 10)
  ELSE IF method = "vigenere" THEN Finite(7, 10)
  ELSE Finite(1, 1)

\* 0 <= x <= 1
WithinUnit(x) ==
  x.k = "finite" /\ 0 <= x.num /\ x.num <= x.den

NoOptions ==
  Options(FALSE, << >>, FALSE)

\* C13 (as claimed): for every method and finite rawScore, without options,
\* normalizeScore returns min(1, max(0, rawScore) / 1000 * w), w being 1.2,
\* 0.8, 0.7 or, for any other method, 1.0; and with any options the result
\* is within [0, 1].
C13_WeightedAndClamped ==
  ret # << >> /\ Len(arg) = 3
    => /\ WithinUnit(ret[1])
       /\ (arg[2].k = "finite" /\ arg[3] = NoOptions)
            => Same(ret[1],
                    MathMin(Finite(1, 1),
                            Times(DividedBy(MathMax(Finite(0, 1), arg[2]), 1000),
                                  ClaimedWeight(arg[1]))))

(***************************************************************************)
(* C14                                                                     *)
(***************************************************************************)
\* C14 (as claimed): normalizeScore returns 0 for every rawScore that is not
\* a finite number.
C14_ZeroForNonFinite ==
  (ret # << >> /\ Len(arg) = 3 /\ arg[2].k # "finite")
    => Same(ret[1], Finite(0, 1))

(***************************************************************************)
(* C15                                                                     *)
(***************************************************************************)
\* the multiplier of the claim: 0.3 + 0.7 * clamp(p, 0, 100) / 100
ClaimedBonus(p) ==
  LET clamped == IF p.num < 0 THEN 0 ELSE IF p.num > 100 * p.den THEN 100 * p.den ELSE p.num
  IN  Lowest(3 * 100 * p.den + 7 * clamped, 10 * 100 * p.den)

\* C15 (as claimed): whenever validWordPercentage is given, 0 included, the
\* weighted score is multiplied by 0.3 + 0.7 * clamp(p, 0, 100) / 100 before
\* the last clamp, and the result does not decrease when p grows.
C15_WordBonusAlwaysApplied ==
  (ret # << >> /\ Len(arg) = 3 /\ arg[2].k = "finite" /\ arg[1] \in DOMAIN scoreWeights
     /\ ~arg[3].isNull /\ arg[3].validWordPercentage # << >>)
    => LET p        == arg[3].validWordPercentage[1]
           weighted == Times(DividedBy(MathMax(Finite(0, 1), arg[2]), 1000),
                             ClaimedWeight(arg[1]))
           spaced   == IF arg[3].preservesSpaces THEN Finite(12, 10) ELSE Finite(1, 1)
       IN  /\ Same(ret[1],
                   MathMax(Finite(0, 1),
                           MathMin(Finite(1, 1),
                                   Times(Times(weighted, ClaimedBonus(p)), spaced))))
           /\ \A q \in WordPercentages :
                (q # << >> /\ Leq(p, q[1]))
                  => Leq(ret[1],
                         normalizeScore(arg[1], arg[2],
                                        [arg[3] EXCEPT !.validWordPercentage = q]))

(***************************************************************************)
(* C16                                                                     *)
(***************************************************************************)
\* C16 (as claimed): a request whose ciphertext is absent, empty or not a
\* string is answered with status 400, never with a status of 500 or above,
\* and no collaborator is invoked for it.
C16_BadInputGets400 ==
  \A c \in Calls :
    (pc[c] # "idle" /\ ~NonEmptyString(ciphertext[c]))
      => /\ invoked[c] = << >>
         /\ response[c].status < 500
         /\ pc[c] = "answered" => response[c].status = 400

(***************************************************************************)
(* C17                                                                     *)
(***************************************************************************)
\* C17 (as claimed): when breakCipher returned an outcome the endpoint
\* answers without an error, with the method, key and decrypted text of the
\* outcome; it answers 500 only when breakCipher raised.
C17_OutcomeIsAnswered ==
  \A c \in Calls :
    pc[c] = "answered"
      => /\ outcome[c].kind = "returned"
              => /\ response[c].status = 200
                 /\ response[c].success = << TRUE >>
                 /\ response[c].results
                      = << [method    |-> outcome[c].method,
                            key       |-> outcome[c].key,
                            decrypted |-> outcome[c].decrypted] >>
         /\ response[c].status >= 500 => outcome[c].kind = "raised"

(***************************************************************************)
(* C18                                                                     *)
(***************************************************************************)
\* the step of method m in call c is over and it completed: it was invoked,
\* it is not awaited any more, and it did not fail
Completed(c, m) ==
  /\ \E i \in DOMAIN invoked[c] : invoked[c][i] = m
  /\ ~(m = MethodVigenere /\ pc[c] = "awaiting")
  /\ m \notin failed[c]

\* C18 (as claimed): the list of candidates holds at most one candidate per
\* method, in cascade order while the cascade runs, and a candidate for a
\* method exactly when the step of that method completed; a failed step
\* leaves no candidate.
C18_OneCandidatePerCompletedStep ==
  \A c \in Calls :
    /\ \A m \in Range(Cascade) : Cardinality(CandidatesOf(c, m)) <= 1
    /\ pc[c] # "done"
         => \A i, j \in DOMAIN results[c] :
              i < j => MethodRank(results[c][i].method) < MethodRank(results[c][j].method)
    /\ \A m \in Range(Cascade) : CandidatesOf(c, m) # {} <=> Completed(c, m)

(***************************************************************************)
(* C19                                                                     *)
(***************************************************************************)
\* C19: in a call a collaborator is invoked only when none is pending, one
\* at a time; while breakVigenere is pending the call waits and has no
\* outcome; and the call does not reach the ranking or end while
\* breakVigenere is pending.
C19_OneStrategyAtATime ==
  /\ [](\A c \in Calls :
          /\ Len(pending[c]) <= 1
          /\ pending[c] # << >> => (pc[c] = "awaiting" /\ outcome[c].kind = "none")
          /\ pc[c] \in {"fallback", "done"} => pending[c] = << >>)
  /\ [][\A c \in Calls :
          /\ invoked'[c] # invoked[c]
               => /\ pending[c] = << >>
                  /\ \E m \in Range(Cascade) : invoked'[c] = Append(invoked[c], m)
          /\ outcome'[c] # outcome[c] => pending'[c] = << >>]_vars

\* a call that was suspended while another call ran ended from the ranking
\* of three candidates
C19_Witness ==
  \E c \in Calls :
    /\ c \in overlapped
    /\ pc[c] = "done"
    /\ invoked[c] = Cascade
    /\ Len(results[c]) = 3
    /\ pending[c] = << >>

(***************************************************************************)
(* C20                                                                     *)
(***************************************************************************)
\* the texts call c handed to validateText in its Vigenere step
ValidatedByVigenere(c) ==
  SelectSeq(validated[c], LAMBDA v : v.step = MethodVigenere)

\* C20: the confidence of a Vigenere candidate is p / 100 when the result
\* of breakVigenere carries a numeric validation percentage p, and then
\* validateText is not invoked in that step; otherwise it is the confidence
\* validateText returns for the decrypted text.
C20_VigenereConfidence ==
  \A c \in Calls : \A i \in CandidatesOf(c, MethodVigenere) :
    LET r == answers[ciphertext[c]].vigenere[1] IN
    IF r.validation.defined /\ r.validation.percentage.type = "number"
      THEN /\ results[c][i].confidence = Frac(r.validation.percentage.num, 100)
           /\ ValidatedByVigenere(c) = << >>
      ELSE /\ results[c][i].confidence = validateText(r.decrypted.str, breaker).confidence
           /\ ValidatedByVigenere(c) = << [step |-> MethodVigenere, text |-> r.decrypted] >>

\* a call ended whose Vigenere candidate has the confidence 0.5 of the
\* percentage 50 its result carried; validateText was invoked in the two
\* steps before, and not in the Vigenere step
C20_Witness ==
  \E c \in Calls : \E i \in CandidatesOf(c, MethodVigenere) :
    /\ pc[c] = "done"
    /\ answers[ciphertext[c]].vigenere[1].validation.percentage = Num(50)
    /\ results[c][i].confidence = Frac(50, 100)
    /\ Len(validated[c]) = 2
    /\ ValidatedByVigenere(c) = << >>

(***************************************************************************)
(* C21                                                                     *)
(***************************************************************************)
\* the word lists as they are kept: commonWords of Words.json when it holds
\* a word, the lists of the two breakers otherwise
WordsAsKept(b) ==
  IF b.wordsDictionary.defined /\ b.wordsDictionary.words # {}
    THEN b.wordsDictionary.words
    ELSE (IF b.vigenereCommonWords.defined THEN b.vigenereCommonWords.words ELSE {})
           \cup (IF b.classicCommonWords.defined THEN b.classicCommonWords.words ELSE {})

\* two strings are equal when the case of their letters is ignored
EqualIgnoringCase(v, w) ==
  /\ Len(v) = Len(w)
  /\ \A k \in DOMAIN v : UpperChar(v[k]) = UpperChar(w[k])

\* C21 (as claimed): whichever dictionary is in use, the Words.json list or
\* the lists of the breakers, validateText counts a token as valid exactly
\* when a word of that dictionary equals it ignoring case.
C21_CaseInsensitiveMembership ==
  (ret # << >> /\ ~NoAlphabeticToken(arg[1]))
    => LET t     == arg[1]
           known == { i \in TokenStarts(t) :
                        \E w \in WordsAsKept(breaker) : EqualIgnoringCase(w, TokenAt(t, i)) }
       IN  /\ ret[1].validWords = Cardinality(known)
           /\ Len(ret[1].invalidWords) = Cardinality(TokenStarts(t) \ known)

(***************************************************************************)
(* C22                                                                     *)
(***************************************************************************)
\* C22 (as claimed): a returned outcome has success = true exactly when its
\* confidence is at least 0.9, and when the ranking is reached every
\* collected candidate has a confidence below 0.9.  (The code reads
\* thresholds.caesar, thresholds.railFence and thresholds.vigenere nowhere:
\* they take no part in any step.)
C22_SuccessIffThresholdMet ==
  \A c \in Calls :
    /\ outcome[c].kind = "returned"
         => (outcome[c].success <=> AtLeastNineTenths(outcome[c].confidence))
    /\ pc[c] = "fallback"
         => \A i \in DOMAIN results[c] : ~AtLeastNineTenths(results[c][i].confidence)

(***************************************************************************)
(* C23                                                                     *)
(***************************************************************************)
\* C23 (as claimed): in every returned outcome the validation details agree
\* with one another: 0 <= validWords <= totalWords, validWords plus the
\* number of invalidWords is totalWords, and when totalWords > 0 the
\* confidence is validWords / totalWords; for the three methods alike.
C23_DetailsAreConsistent ==
  \A c \in Calls :
    outcome[c].kind = "returned"
      => LET d == outcome[c].details IN
         /\ 0 <= d.validWords
         /\ d.validWords <= d.totalWords
         /\ d.validWords + Len(d.invalidWords) = d.totalWords
         /\ d.totalWords > 0
              => FracEq(outcome[c].confidence, Frac(d.validWords, d.totalWords))

====
